---- MODULE Spec2Model ----
(***************************************************************************)
(* StreamScribe backend: the request validators (validators.py,            *)
(* file_utils.py), the persistence operations (crud.py) and the HTTP       *)
(* handlers (main.py) over the videos table and the storage bucket.        *)
(*                                                                         *)
(* Strings are sequences of one-character strings, so that strip(),        *)
(* lower(), len() and os.path.splitext() are computed character by         *)
(* character as Python computes them.                                      *)
(***************************************************************************)
EXTENDS Integers, Sequences, FiniteSets, Bags, TLC

VARIABLES
    call,               \* one application of a validator: its arguments and result
    videos,             \* the videos table: id -> row
    nextId,             \* the table's serial primary-key sequence
    bucket,             \* storage paths of the objects present in the bucket
    nextName,           \* number of unique filenames generated so far
    STORAGE_AVAILABLE,  \* main.py flag: the storage module was imported
    FILE_UTILS_AVAILABLE, \* main.py flag: the file_utils module was imported
    supabase,           \* storage.py: the storage client was created
    req,                \* the requests in flight, each with its locals: a bag
    resp,               \* the response that the last step produced, until it is sent
    fresh               \* history: id -> title requested, for the rows that
                        \* create_video inserted and nothing has written since

vars == <<call, videos, nextId, bucket, nextName, STORAGE_AVAILABLE,
          FILE_UTILS_AVAILABLE, supabase, req, resp, fresh>>

dbvars == <<videos, nextId, bucket, nextName, STORAGE_AVAILABLE,
            FILE_UTILS_AVAILABLE, supabase, req, resp, fresh>>

flags == <<STORAGE_AVAILABLE, FILE_UTILS_AVAILABLE, supabase>>

----------------------------------------------------------------------------
(* Bounds of the model *)

MaxPad == 1          \* whitespace characters added on each side of a title
MaxCoreLen == 3      \* length of the enumerated short title bodies
LongDelta == 1       \* long titles have length MAX_TITLE_LENGTH -+ LongDelta
MaxStemLen == 2      \* length of the part of a filename before its suffix
SizeDelta == 2       \* sizes within SizeDelta of 0 and of MAX_FILE_SIZE_BYTES
NumWorkers == 2      \* requests that can be in flight together
MaxId == 1           \* rows inserted in one run
MaxNames == 1        \* unique filenames generated in one run

----------------------------------------------------------------------------
(* Character-level string helpers *)

Whitespace == {" ", "\t"}

Min(S) == CHOOSE x \in S : \A y \in S : x <= y

Max(S) == CHOOSE x \in S : \A y \in S : x >= y

\* str.strip(): drop leading and trailing whitespace
strip(s) ==
    LET keep == {i \in 1..Len(s) : s[i] \notin Whitespace}
    IN  IF keep = {} THEN <<>> ELSE SubSeq(s, Min(keep), Max(keep))

\* str.lower() on one character
lowerChar(c) ==
    CASE c = "M" -> "m"
      [] c = "P" -> "p"
      [] c = "W" -> "w"
      [] c = "V" -> "v"
      [] c = "O" -> "o"
      [] OTHER -> c

\* str.lower()
lower(s) == [i \in 1..Len(s) |-> lowerChar(s[i])]

\* str.rfind(c): last 1-based index of c in s, 0 when absent
rfind(s, c) ==
    LET at == {i \in 1..Len(s) : s[i] = c}
    IN  IF at = {} THEN 0 ELSE Max(at)

\* os.path.splitext(p)[1]: the suffix from the last dot, provided that dot
\* follows the last "/" and is not one of the basename's leading dots
splitext_ext(p) ==
    LET sepIndex == rfind(p, "/")
        dotIndex == rfind(p, ".")
    IN  IF dotIndex > sepIndex
           /\ \E i \in (sepIndex + 1)..(dotIndex - 1) : p[i] # "."
        THEN SubSeq(p, dotIndex, Len(p))
        ELSE <<>>

Rep(c, n) == [i \in 1..n |-> c]

----------------------------------------------------------------------------
(* validators.py *)

ALLOWED_EXTENSIONS ==
    { <<".", "m", "p", "4">>, <<".", "m", "o", "v">>, <<".", "a", "v", "i">>,
      <<".", "m", "k", "v">>, <<".", "w", "e", "b", "m">> }

MAX_TITLE_LENGTH == 255

MIN_TITLE_LENGTH == 3

invalid_chars == {"<", ">", ":", "\"", "/", "\\", "|", "?", "*"}

\* mutant: any extension at all is accepted
validate_file_extension_any(filename) ==
    splitext_ext(lower(filename)) # <<>>

validate_file_extension(filename) ==
    splitext_ext(lower(filename)) \in ALLOWED_EXTENSIONS

\* mutant: the minimum length itself is rejected
validate_title_off_by_one(title) ==
    IF Len(title) = 0 \/ Len(strip(title)) = 0
    THEN [ok |-> FALSE, detail |-> "Title cannot be empty"]
    ELSE IF Len(title) <= MIN_TITLE_LENGTH
    THEN [ok |-> FALSE, detail |-> "Title must be at least"]
    ELSE IF Len(title) > MAX_TITLE_LENGTH
    THEN [ok |-> FALSE, detail |-> "Title must be at most"]
    ELSE IF \E i \in 1..Len(title) : title[i] \in invalid_chars
    THEN [ok |-> FALSE, detail |-> "Title contains invalid character"]
    ELSE [ok |-> TRUE, detail |-> ""]

validate_title(title) ==
    IF Len(title) = 0 \/ Len(strip(title)) = 0
    THEN [ok |-> FALSE, detail |-> "Title cannot be empty"]
    ELSE IF Len(title) < MIN_TITLE_LENGTH
    THEN [ok |-> FALSE, detail |-> "Title must be at least"]
    ELSE IF Len(title) > MAX_TITLE_LENGTH
    THEN [ok |-> FALSE, detail |-> "Title must be at most"]
    ELSE IF \E i \in 1..Len(title) : title[i] \in invalid_chars
    THEN [ok |-> FALSE, detail |-> "Title contains invalid character"]
    ELSE [ok |-> TRUE, detail |-> ""]

----------------------------------------------------------------------------
(* file_utils.py *)

MAX_FILE_SIZE_MB == 50

MAX_FILE_SIZE_BYTES == MAX_FILE_SIZE_MB * 1024 * 1024

\* mutant: the maximum itself is rejected
validate_file_size_at_max(file_size) ==
    IF file_size >= MAX_FILE_SIZE_BYTES
    THEN [ok |-> FALSE, detail |-> "File too large"]
    ELSE IF file_size = 0
    THEN [ok |-> FALSE, detail |-> "File is empty"]
    ELSE [ok |-> TRUE, detail |-> ""]

\* mutant: the empty file is not rejected
validate_file_size_no_empty_check(file_size) ==
    IF file_size > MAX_FILE_SIZE_BYTES
    THEN [ok |-> FALSE, detail |-> "File too large"]
    ELSE [ok |-> TRUE, detail |-> ""]

validate_file_size(file_size) ==
    IF file_size > MAX_FILE_SIZE_BYTES
    THEN [ok |-> FALSE, detail |-> "File too large"]
    ELSE IF file_size = 0
    THEN [ok |-> FALSE, detail |-> "File is empty"]
    ELSE [ok |-> TRUE, detail |-> ""]

----------------------------------------------------------------------------
(* validators.py, continued *)

\* status 0 stands for the normal return (None); 400 for the HTTPException
validate_upload_request(filename, title, file_size) ==
    IF ~validate_file_extension(filename)
    THEN [status |-> 400, detail |-> "Invalid file type"]
    ELSE IF ~validate_title(title).ok
    THEN [status |-> 400, detail |-> validate_title(title).detail]
    ELSE IF file_size > MAX_FILE_SIZE_BYTES
    THEN [status |-> 400, detail |-> "File too large"]
    ELSE [status |-> 0, detail |-> ""]

----------------------------------------------------------------------------
(* Inputs of the validator specifications *)

SeqsUpTo(S, n) == UNION {[1..k -> S] : k \in 0..n}

NoResult == [ok |-> FALSE, status |-> -1, detail |-> "not applied"]

TitleChars == {"A", "B", "C", " ", "?"}

Pads == SeqsUpTo(Whitespace, MaxPad)

LongCores ==
    UNION { {Rep("A", n), Rep("A", n - 1) \o <<"*">>} :
            n \in (MAX_TITLE_LENGTH - LongDelta - 1)..(MAX_TITLE_LENGTH + LongDelta) }

TitleInputs ==
    {l \o c \o r : l \in Pads, r \in Pads,
                   c \in SeqsUpTo(TitleChars, MaxCoreLen) \cup LongCores}

Stems == SeqsUpTo({"a", ".", "/"}, MaxStemLen)

Suffixes ==
    { <<>>,
      <<".", "m", "p", "4">>, <<".", "M", "P", "4">>, <<".", "m", "o", "v">>,
      <<".", "M", "o", "V">>, <<".", "a", "v", "i">>, <<".", "m", "k", "v">>,
      <<".", "w", "e", "b", "m">>, <<".", "w", "m", "v">>, <<".", "W", "M", "V">>,
      <<".", "m", "p">>, <<"m", "p", "4">>, <<".", "m", "p", "4", "/">>,
      <<".", "m", "p", "4", ".">>, <<".", "m", "p", "4", ".", "w", "m", "v">>,
      <<".", "w", "m", "v", ".", "m", "p", "4">> }

FilenameInputs == {s \o e : s \in Stems, e \in Suffixes}

RequestTitles ==
    { <<>>, <<"A", "B">>, <<"A", "B", "C">>, <<"A", "?", "C">>, <<" ", "A", " ">>,
      Rep("A", MAX_TITLE_LENGTH + 1) }

SizeInputs ==
    (0..SizeDelta) \cup
    ((MAX_FILE_SIZE_BYTES - SizeDelta)..(MAX_FILE_SIZE_BYTES + SizeDelta))

----------------------------------------------------------------------------
(* Specification of validate_title on its own *)

DbIdle ==
    /\ videos = <<>>
    /\ nextId = 1
    /\ bucket = {}
    /\ nextName = 1
    /\ STORAGE_AVAILABLE = FALSE
    /\ FILE_UTILS_AVAILABLE = FALSE
    /\ supabase = FALSE
    /\ req = <<>>
    /\ resp = <<>>
    /\ fresh = <<>>

InitTitle ==
    /\ call \in [fn : {"none"}, filename : {<<>>}, title : TitleInputs,
                 file_size : {0}, result : {NoResult}]
    /\ DbIdle

Apply_validate_title ==
    /\ call.fn = "none"
    /\ call' = [call EXCEPT
                  !.fn = "validate_title",
                  !.result = [ok |-> validate_title(call.title).ok,
                              status |-> 0,
                              detail |-> validate_title(call.title).detail]]
    /\ UNCHANGED dbvars

NextTitle == Apply_validate_title

SpecTitle == InitTitle /\ [][NextTitle]_vars

----------------------------------------------------------------------------
(* Specification of the upload-request checks *)

InitUploadRequest ==
    /\ call \in [fn : {"none"}, filename : FilenameInputs, title : RequestTitles,
                 file_size : SizeInputs, result : {NoResult}]
    /\ DbIdle

Apply_validate_file_extension ==
    /\ call.fn = "none"
    /\ call' = [call EXCEPT
                  !.fn = "validate_file_extension",
                  !.result = [ok |-> validate_file_extension(call.filename),
                              status |-> 0, detail |-> ""]]
    /\ UNCHANGED dbvars

Apply_validate_file_size ==
    /\ call.fn = "none"
    /\ call' = [call EXCEPT
                  !.fn = "validate_file_size",
                  !.result = [ok |-> validate_file_size(call.file_size).ok,
                              status |-> 0,
                              detail |-> validate_file_size(call.file_size).detail]]
    /\ UNCHANGED dbvars

Apply_validate_upload_request ==
    /\ call.fn = "none"
    /\ LET r == validate_upload_request(call.filename, call.title, call.file_size)
       IN  call' = [call EXCEPT
                      !.fn = "validate_upload_request",
                      !.result = [ok |-> r.status = 0, status |-> r.status,
                                  detail |-> r.detail]]
    /\ UNCHANGED dbvars

NextUploadRequest ==
    \/ Apply_validate_file_extension
    \/ Apply_validate_file_size
    \/ Apply_validate_upload_request

SpecUploadRequest == InitUploadRequest /\ [][NextUploadRequest]_vars

----------------------------------------------------------------------------
(* C6, C7: validate_title *)

TitleApplied == call.fn = "validate_title"

NoSurroundingWhitespace(t) ==
    Len(t) > 0 /\ t[1] \notin Whitespace /\ t[Len(t)] \notin Whitespace

NoInvalidChar(t) == \A i \in 1..Len(t) : t[i] \notin invalid_chars

\* C6: every title of length <= 2 is rejected; every title of length 3 or of
\* length 255 without surrounding whitespace and without a forbidden
\* character is accepted; every title of length 256 is rejected.
C6_TitleLengthBoundaries ==
    TitleApplied =>
        /\ Len(call.title) <= 2 => ~call.result.ok
        /\ (/\ Len(call.title) \in {3, 255}
            /\ NoSurroundingWhitespace(call.title)
            /\ NoInvalidChar(call.title)) => call.result.ok
        /\ Len(call.title) = 256 => ~call.result.ok

C6_Witness ==
    /\ TitleApplied
    /\ call.title = <<"A", "B", "C">>
    /\ call.result.ok

\* C7: a title is accepted exactly when its trimmed length is in [3, 255]
\* and the untrimmed title has no forbidden character.
C7_TrimmedLengthDecides ==
    TitleApplied =>
        (call.result.ok <=>
            /\ Len(strip(call.title)) >= 3
            /\ Len(strip(call.title)) <= 255
            /\ NoInvalidChar(call.title))

C7_Witness ==
    /\ TitleApplied
    /\ call.title = <<" ", "A", " ">>
    /\ call.result.ok

----------------------------------------------------------------------------
(* C9: the size limit *)

ValidExtAndTitle ==
    /\ validate_file_extension(call.filename)
    /\ validate_title(call.title).ok

\* C9: the maximum is 50 MB in bytes; validate_file_size accepts exactly the
\* maximum and rejects one byte more, and for every size greater than 0 the
\* size check of validate_upload_request decides as validate_file_size does.
C9_SizeLimit ==
    /\ call.fn = "validate_file_size" =>
          /\ call.file_size = 50 * 1024 * 1024 => call.result.ok
          /\ call.file_size = 50 * 1024 * 1024 + 1 => ~call.result.ok
    /\ (/\ call.fn = "validate_upload_request"
        /\ ValidExtAndTitle
        /\ call.file_size > 0) =>
          (call.result.ok <=> validate_file_size(call.file_size).ok)

C9_Witness ==
    /\ call.fn = "validate_upload_request"
    /\ ValidExtAndTitle
    /\ call.file_size = 50 * 1024 * 1024 + 1
    /\ call.result.status = 400
    /\ call.result.detail = "File too large"

----------------------------------------------------------------------------
(* C10: the extension check *)

ClaimedExtensions ==
    { <<"m", "p", "4">>, <<"m", "o", "v">>, <<"a", "v", "i">>,
      <<"m", "k", "v">>, <<"w", "e", "b", "m">> }

\* the text after the last dot of the filename, lower-cased; <<>> without a dot
AfterLastDot(f) ==
    IF rfind(f, ".") = 0 THEN <<>>
    ELSE lower(SubSeq(f, rfind(f, ".") + 1, Len(f)))

ExtensionClaimedAllowed(f) == AfterLastDot(f) \in ClaimedExtensions

\* C10: a filename whose extension is not mp4, mov, avi, mkv or webm in any
\* letter case (".wmv" in particular) is rejected by the extension check,
\* and validate_upload_request then fails with the extension's 400 whatever
\* the title and the size are.
C10_ExtensionRejected ==
    ~ExtensionClaimedAllowed(call.filename) =>
        /\ call.fn = "validate_file_extension" => ~call.result.ok
        /\ call.fn = "validate_upload_request" =>
              /\ call.result.status = 400
              /\ call.result.detail = "Invalid file type"

C10_Witness ==
    /\ call.fn = "validate_upload_request"
    /\ call.filename = <<"a", ".", "W", "M", "V">>
    /\ ~validate_title(call.title).ok
    /\ call.file_size > MAX_FILE_SIZE_BYTES
    /\ call.result.status = 400
    /\ call.result.detail = "Invalid file type"

----------------------------------------------------------------------------
(* Values shared by the table, the bucket and the handlers *)

\* Optional[T]: None is the empty set, a value x is {x}
None == {}

Some(x) == {x}

The(o) == CHOOSE x \in o : TRUE

Take(s, n) == SubSeq(s, 1, IF n < Len(s) THEN n ELSE Len(s))

RECURSIVE SortedSeq(_)
SortedSeq(S) ==
    IF S = {} THEN <<>> ELSE <<Min(S)>> \o SortedSeq(S \ {Min(S)})

----------------------------------------------------------------------------
(* storage.py *)

MP4_BOX_18 == <<0, 0, 0, 24>>

MP4_BOX_1C == <<0, 0, 0, 28>>

RIFF == <<82, 73, 70, 70>>

\* b'\x00\x00\x00\x14ftypqt', ten bytes
QUICKTIME_ATOM == <<0, 0, 0, 20, 102, 116, 121, 112, 113, 116>>

get_file_type(file_data) ==
    IF Take(file_data, 4) = MP4_BOX_18 \/ Take(file_data, 4) = MP4_BOX_1C
    THEN "video/mp4"
    ELSE IF Take(file_data, 4) = RIFF
    THEN "video/avi"
    ELSE IF Take(file_data, 8) = QUICKTIME_ATOM
    THEN "video/quicktime"
    ELSE "video/mp4"

is_video_file(mime_type) ==
    mime_type \in {"video/mp4", "video/quicktime", "video/x-msvideo",
                   "video/x-matroska", "video/webm"}

\* storage_path = f"{folder}/{filename}", filename from generate_unique_filename
storage_path_of(folder, filename) ==
    [folder |-> folder, unique |-> filename.unique, ext |-> filename.ext]

----------------------------------------------------------------------------
(* file_utils.py, continued *)

dangerous_chars == {"/", "\\", "<", ">", ":", "\"", "|", "?", "*"}

\* every ".." and every dangerous character becomes "_"
RECURSIVE sanitize_filename(_)
sanitize_filename(filename) ==
    IF filename = <<>> THEN <<>>
    ELSE IF Len(filename) >= 2 /\ filename[1] = "." /\ filename[2] = "."
    THEN <<"_">> \o sanitize_filename(SubSeq(filename, 3, Len(filename)))
    ELSE <<IF filename[1] \in dangerous_chars THEN "_" ELSE filename[1]>>
         \o sanitize_filename(Tail(filename))

\* os.path.splitext(p)[0]
splitext_root(p) == SubSeq(p, 1, Len(p) - Len(splitext_ext(p)))

\* f"{timestamp}_{unique_id}{ext}": the n-th generated name
generate_unique_filename(original_filename, n) ==
    [unique |-> n, ext |-> splitext_ext(original_filename)]

----------------------------------------------------------------------------
(* models.py and crud.py *)

\* a row of the videos table as it is inserted. created_at is left out;
\* updated_at is 0 while it is the insert's server default and 1 once an
\* UPDATE of the row has set it (onupdate)
Video(id, title, duration, file_size_mb, status, storage_path, original_filename, mime_type) ==
    [id |-> id, title |-> title, duration |-> duration,
     file_size_mb |-> file_size_mb, status |-> status,
     storage_path |-> storage_path, storage_url |-> storage_path,
     original_filename |-> original_filename, mime_type |-> mime_type,
     updated_at |-> 0]

Insert(db, row) ==
    [i \in DOMAIN db \cup {row.id} |-> IF i = row.id THEN row ELSE db[i]]

Remove(db, id) == [i \in DOMAIN db \ {id} |-> db[i]]

crud_get_video(db, video_id) ==
    IF video_id \in DOMAIN db THEN Some(db[video_id]) ELSE None

\* status "" stands for no status filter
crud_get_videos(db, skip, limit, status) ==
    LET ids == SortedSeq({i \in DOMAIN db : status = "" \/ db[i].status = status})
        last == IF skip + limit < Len(ids) THEN skip + limit ELSE Len(ids)
    IN  [k \in 1..(IF last > skip THEN last - skip ELSE 0) |-> db[ids[skip + k]]]

\* mutant: the duration is not checked
crud_create_video_any_duration(id, title, duration, file_size_mb) ==
    IF Len(strip(title)) = 0
    THEN [ok |-> FALSE, detail |-> "Title cannot be empty", row |-> None]
    ELSE [ok |-> TRUE, detail |-> "",
          row |-> Some(Video(id, strip(title), Some(duration), file_size_mb,
                             "processing", None, None, None))]

\* mutant: the title is stored as given
crud_create_video_untrimmed(id, title, duration, file_size_mb) ==
    IF duration <= 0
    THEN [ok |-> FALSE, detail |-> "Duration must be positive", row |-> None]
    ELSE IF Len(strip(title)) = 0
    THEN [ok |-> FALSE, detail |-> "Title cannot be empty", row |-> None]
    ELSE [ok |-> TRUE, detail |-> "",
          row |-> Some(Video(id, title, Some(duration), file_size_mb,
                             "processing", None, None, None))]

\* the validation of crud.create_video and the row it builds
crud_create_video(id, title, duration, file_size_mb) ==
    IF duration <= 0
    THEN [ok |-> FALSE, detail |-> "Duration must be positive", row |-> None]
    ELSE IF Len(strip(title)) = 0
    THEN [ok |-> FALSE, detail |-> "Title cannot be empty", row |-> None]
    ELSE [ok |-> TRUE, detail |-> "",
          row |-> Some(Video(id, strip(title), Some(duration), file_size_mb,
                             "processing", None, None, None))]

\* mutant: a transition rule, only a row that is "processing" is updated
crud_update_video_status_from_processing(db, video_id, status) ==
    IF video_id \in DOMAIN db /\ db[video_id].status = "processing"
    THEN [db EXCEPT ![video_id].status = status,
                    ![video_id].updated_at =
                        IF db[video_id].status # status THEN 1 ELSE @]
    ELSE db

\* the flush issues an UPDATE, which also sets updated_at, only when the
\* status given differs from the one loaded
crud_update_video_status(db, video_id, status) ==
    IF video_id \in DOMAIN db
    THEN [db EXCEPT ![video_id].status = status,
                    ![video_id].updated_at =
                        IF db[video_id].status # status THEN 1 ELSE @]
    ELSE db

crud_delete_video(db, video_id) ==
    IF video_id \in DOMAIN db THEN Remove(db, video_id) ELSE db

\* {status: count}, as a set of <<status, count>> pairs
crud_get_video_count_by_status(db) ==
    { <<st, Cardinality({i \in DOMAIN db : db[i].status = st})>> :
        st \in {db[i].status : i \in DOMAIN db} }

----------------------------------------------------------------------------
(* Requests *)

CreateTitles == { <<" ", "A", "B", " ">>, <<" ">> }

CreateDurations == { None, Some(0), Some(5) }

StatusInputs == { "ready", "uploading" }

\* filename and title of an upload
UploadNames ==
    { [filename |-> <<"a", ".", "w", "m", "v">>, title |-> <<"A", "?">>] }

FileInputs ==
    { [size |-> 0, head |-> <<>>],
      [size |-> 12, head |-> MP4_BOX_18 \o <<102, 116, 121, 112>>],
      [size |-> 12, head |-> RIFF \o <<0, 0, 0, 0>>],
      [size |-> 12, head |-> QUICKTIME_ATOM],
      [size |-> MAX_FILE_SIZE_BYTES + 1, head |-> MP4_BOX_1C \o <<102, 116, 121, 112>>] }

\* the ids a request can name: every id a row can get, and one that no row gets
VideoIds == 1..(MaxId + 1)

\* the locals of a handler between two of its database or bucket calls
Locals ==
    [op |-> "", pc |-> "", video_id |-> 0, filename |-> <<>>, title |-> <<>>,
     file_size |-> 0, original_filename |-> <<>>, mime_type |-> "",
     storage_path |-> None, n_videos |-> 0]

\* no response (code 0); a response carries its request's arguments
NoResponse ==
    [op |-> "", video_id |-> 0, title |-> <<>>, duration |-> None,
     new_status |-> "", file_size |-> 0, storage_path |-> None,
     storage_result |-> "", storage_calls |-> 0, code |-> 0, detail |-> "",
     video |-> None, signed_url |-> None, mime_type |-> "",
     total_videos |-> 0, status_breakdown |-> {}]

\* the last response has gone out and a worker of the pool is free to take
\* up a request
Free == resp = NoResponse /\ BagCardinality(req) < NumWorkers

InFlight == BagToSet(req)

\* the requests in flight that can take their next step: the last response
\* has gone out
Waiting == IF resp = NoResponse THEN InFlight ELSE {}

Begin(r) == req (+) SetToBag({r})

End(r) == req (-) SetToBag({r})

Continue(r, s) == (req (-) SetToBag({r})) (+) SetToBag({s})

Init ==
    /\ call = [fn |-> "idle", filename |-> <<>>, title |-> <<>>, file_size |-> 0,
               result |-> NoResult]
    /\ videos = <<>>
    /\ nextId = 1
    /\ bucket = {}
    /\ nextName = 1
    /\ STORAGE_AVAILABLE \in BOOLEAN
    /\ FILE_UTILS_AVAILABLE \in BOOLEAN
    /\ supabase \in BOOLEAN
    /\ supabase => STORAGE_AVAILABLE
    /\ req = EmptyBag
    /\ resp = NoResponse
    /\ fresh = <<>>

\* fresh after a write to the row video_id
Written(video_id) == [i \in DOMAIN fresh \ {video_id} |-> fresh[i]]

----------------------------------------------------------------------------
(* main.py: GET /api/videos/{video_id} *)

get_video(video_id) ==
    /\ Free
    /\ LET video == crud_get_video(videos, video_id)
       IN  resp' = [NoResponse EXCEPT
                      !.op = "get_video", !.video_id = video_id,
                      !.code = IF video = None THEN 404 ELSE 200,
                      !.detail = IF video = None THEN "Video not found" ELSE "",
                      !.video = video]
    /\ UNCHANGED <<call, videos, nextId, bucket, nextName, flags, req, fresh>>

----------------------------------------------------------------------------
(* main.py: POST /api/videos, with crud.create_video *)

\* commit_ok = FALSE: db.commit() raises SQLAlchemyError and is rolled back
create_video(title, duration, commit_ok) ==
    /\ Free
    /\ LET r == crud_create_video(nextId, title,
                                  IF duration = None THEN 0 ELSE The(duration),
                                  None)
           request == [NoResponse EXCEPT !.op = "create_video", !.title = title,
                                         !.duration = duration]
       IN  IF ~r.ok
           THEN /\ resp' = [request EXCEPT !.code = 500, !.detail = r.detail]
                /\ UNCHANGED <<videos, nextId, fresh>>
           ELSE IF ~commit_ok
           THEN /\ resp' = [request EXCEPT !.code = 500, !.detail = "database error"]
                /\ UNCHANGED <<videos, nextId, fresh>>
           ELSE /\ nextId <= MaxId
                /\ videos' = Insert(videos, The(r.row))
                /\ nextId' = nextId + 1
                /\ resp' = [request EXCEPT !.code = 201, !.video = r.row]
                /\ fresh' = [i \in DOMAIN fresh \cup {nextId} |->
                               IF i = nextId THEN title ELSE fresh[i]]
    /\ UNCHANGED <<call, bucket, nextName, flags, req>>

----------------------------------------------------------------------------
(* crud.update_video_status, as seed_data.py calls it; code 200 stands for *)
(* its normal return, with the row or with None                            *)

update_video_status(video_id, status, commit_ok) ==
    /\ Free
    /\ LET request == [NoResponse EXCEPT !.op = "update_video_status",
                                         !.video_id = video_id,
                                         !.new_status = status]
       IN  IF video_id \notin DOMAIN videos
           THEN /\ resp' = [request EXCEPT !.code = 200]
                /\ UNCHANGED <<videos, fresh>>
           ELSE IF ~commit_ok
           THEN /\ resp' = [request EXCEPT !.code = 500, !.detail = "database error"]
                /\ UNCHANGED <<videos, fresh>>
           ELSE /\ videos' = crud_update_video_status(videos, video_id, status)
                /\ resp' = [request EXCEPT !.code = 200,
                                           !.video = Some(videos'[video_id])]
                /\ fresh' = Written(video_id)
    /\ UNCHANGED <<call, nextId, bucket, nextName, flags, req>>

----------------------------------------------------------------------------
(* main.py: DELETE /api/videos/{video_id} *)

\* mutant: no 404 before the storage and database deletes
delete_video_unchecked(video_id) ==
    /\ Free
    /\ LET video == crud_get_video(videos, video_id)
           storage_path == IF video = None THEN None ELSE The(video).storage_path
       IN  req' = Begin([Locals EXCEPT
                           !.op = "delete_video", !.video_id = video_id,
                           !.storage_path = storage_path,
                           !.pc = IF STORAGE_AVAILABLE /\ storage_path # None
                                  THEN "delete_storage" ELSE "delete_db"])
    /\ resp' = NoResponse
    /\ UNCHANGED <<call, videos, nextId, bucket, nextName, flags, fresh>>

\* crud.get_video, the 404, and the decision to call the storage
delete_video(video_id) ==
    /\ Free
    /\ LET video == crud_get_video(videos, video_id)
       IN  IF video = None
           THEN /\ resp' = [NoResponse EXCEPT
                              !.op = "delete_video", !.video_id = video_id,
                              !.code = 404, !.detail = "Video not found"]
                /\ UNCHANGED req
           ELSE /\ req' = Begin([Locals EXCEPT
                                   !.op = "delete_video", !.video_id = video_id,
                                   !.storage_path = The(video).storage_path,
                                   !.pc = IF STORAGE_AVAILABLE
                                             /\ The(video).storage_path # None
                                          THEN "delete_storage" ELSE "delete_db"])
                /\ resp' = NoResponse
    /\ UNCHANGED <<call, videos, nextId, bucket, nextName, flags, fresh>>

\* mutant: a storage delete that does not succeed ends the request
delete_video_storage_abort(r, outcome) ==
    /\ r.op = "delete_video"
    /\ r.pc = "delete_storage"
    /\ outcome = "deleted" => supabase
    /\ IF outcome = "deleted"
       THEN /\ bucket' = bucket \ r.storage_path
            /\ req' = Continue(r, [r EXCEPT !.pc = "delete_db"])
            /\ resp' = NoResponse
       ELSE /\ resp' = [NoResponse EXCEPT
                          !.op = "delete_video", !.video_id = r.video_id,
                          !.storage_path = r.storage_path,
                          !.storage_result = outcome, !.code = 500,
                          !.detail = "storage error"]
            /\ req' = End(r)
            /\ UNCHANGED bucket
    /\ UNCHANGED <<call, videos, nextId, nextName, flags, fresh>>

\* storage.delete_from_storage inside the handler's try/except; the handler
\* keeps nothing of its result.
\* outcome: "deleted" (True), "failed" (False: no client, or remove() raised
\* inside delete_from_storage), "raised" (an exception reached the handler)
delete_video_storage(r, outcome) ==
    /\ r.op = "delete_video"
    /\ r.pc = "delete_storage"
    /\ outcome = "deleted" => supabase
    /\ bucket' = IF outcome = "deleted" THEN bucket \ r.storage_path ELSE bucket
    /\ req' = Continue(r, [r EXCEPT !.pc = "delete_db"])
    /\ resp' = NoResponse
    /\ UNCHANGED <<call, videos, nextId, nextName, flags, fresh>>

\* crud.delete_video and the response
delete_video_db(r, commit_ok) ==
    /\ r.op = "delete_video"
    /\ r.pc = "delete_db"
    /\ LET request == [NoResponse EXCEPT
                         !.op = "delete_video", !.video_id = r.video_id,
                         !.storage_path = r.storage_path,
                         !.storage_calls =
                             IF STORAGE_AVAILABLE /\ r.storage_path # None
                                /\ supabase
                             THEN 1 ELSE 0]
       IN  IF r.video_id \notin DOMAIN videos
           THEN /\ resp' = [request EXCEPT !.code = 404, !.detail = "Video not found"]
                /\ UNCHANGED <<videos, fresh>>
           ELSE IF ~commit_ok
           THEN /\ resp' = [request EXCEPT !.code = 500, !.detail = "database error"]
                /\ UNCHANGED <<videos, fresh>>
           ELSE /\ videos' = crud_delete_video(videos, r.video_id)
                /\ resp' = [request EXCEPT !.code = 200,
                                           !.detail = "deleted successfully"]
                /\ fresh' = Written(r.video_id)
    /\ req' = End(r)
    /\ UNCHANGED <<call, nextId, bucket, nextName, flags>>

----------------------------------------------------------------------------
(* main.py: POST /api/videos/upload *)

\* from the availability check to generate_unique_filename
upload_video(filename, title, file) ==
    /\ Free
    /\ LET original_filename == sanitize_filename(filename)
           video_title == IF title # <<>> THEN title
                          ELSE splitext_root(original_filename)
           size_check == validate_file_size(file.size)
           mime_type == get_file_type(Take(file.head, 2048))
           request == [NoResponse EXCEPT !.op = "upload_video",
                                         !.file_size = file.size]
       IN  IF ~STORAGE_AVAILABLE \/ ~FILE_UTILS_AVAILABLE
           THEN /\ resp' = [request EXCEPT
                              !.code = 503,
                              !.detail = "File upload service not available"]
                /\ UNCHANGED <<req, nextName>>
           ELSE IF ~size_check.ok
           THEN /\ resp' = [request EXCEPT !.code = 400,
                                           !.detail = size_check.detail]
                /\ UNCHANGED <<req, nextName>>
           ELSE IF ~is_video_file(mime_type)
           THEN /\ resp' = [request EXCEPT !.code = 400,
                                           !.mime_type = mime_type,
                                           !.detail = "Invalid file type"]
                /\ UNCHANGED <<req, nextName>>
           ELSE /\ nextName <= MaxNames
                /\ nextName' = nextName + 1
                /\ req' = Begin([Locals EXCEPT
                                   !.op = "upload_video",
                                   !.filename = filename,
                                   !.file_size = file.size,
                                   !.title = video_title,
                                   !.original_filename = original_filename,
                                   !.mime_type = mime_type,
                                   !.storage_path =
                                       Some(storage_path_of("uploads",
                                           generate_unique_filename(original_filename,
                                                                    nextName))),
                                   !.pc = "upload_storage"])
                /\ resp' = NoResponse
    /\ UNCHANGED <<call, videos, nextId, bucket, flags, fresh>>

\* mutant: the result of upload_to_storage is not checked
upload_video_storage_unchecked(r, stored) ==
    /\ r.op = "upload_video"
    /\ r.pc = "upload_storage"
    /\ bucket' = IF supabase /\ stored THEN bucket \cup r.storage_path ELSE bucket
    /\ req' = Continue(r, [r EXCEPT !.pc = "upload_db"])
    /\ resp' = NoResponse
    /\ UNCHANGED <<call, videos, nextId, nextName, flags, fresh>>

\* storage.upload_to_storage and the handler's check of its result.
\* stored = FALSE: the bucket call raised inside upload_to_storage
upload_video_storage(r, stored) ==
    /\ r.op = "upload_video"
    /\ r.pc = "upload_storage"
    /\ LET request == [NoResponse EXCEPT !.op = "upload_video",
                                         !.file_size = r.file_size,
                                         !.storage_path = r.storage_path]
       IN  IF ~supabase
           THEN /\ resp' = [request EXCEPT !.code = 500,
                                           !.storage_result = "not configured",
                                           !.detail = "Failed to upload file"]
                /\ req' = End(r)
                /\ UNCHANGED bucket
           ELSE IF ~stored
           THEN /\ resp' = [request EXCEPT !.code = 500,
                                           !.storage_result = "failed",
                                           !.storage_calls = 1,
                                           !.detail = "Failed to upload file"]
                /\ req' = End(r)
                /\ UNCHANGED bucket
           ELSE /\ bucket' = bucket \cup r.storage_path
                /\ req' = Continue(r, [r EXCEPT !.pc = "upload_db"])
                /\ resp' = NoResponse
    /\ UNCHANGED <<call, videos, nextId, nextName, flags, fresh>>

\* mutant: a failed commit also removes the object from the bucket
upload_video_db_cleanup(r, commit_ok) ==
    /\ r.op = "upload_video"
    /\ r.pc = "upload_db"
    /\ LET request == [NoResponse EXCEPT !.op = "upload_video",
                                         !.file_size = r.file_size,
                                         !.storage_path = r.storage_path,
                                         !.storage_result = "stored",
                                         !.storage_calls = 1]
           db_video ==
               Video(nextId, r.title, None,
                     Some(r.file_size \div (1024 * 1024)), "ready",
                     r.storage_path, Some(r.original_filename),
                     Some(r.mime_type))
       IN  IF ~commit_ok
           THEN /\ resp' = [request EXCEPT !.code = 500, !.detail = "Upload failed"]
                /\ bucket' = bucket \ r.storage_path
                /\ UNCHANGED <<videos, nextId>>
           ELSE /\ nextId <= MaxId
                /\ videos' = Insert(videos, db_video)
                /\ nextId' = nextId + 1
                /\ resp' = [request EXCEPT !.code = 201,
                                           !.detail = "File uploaded successfully",
                                           !.video = Some(db_video)]
                /\ UNCHANGED bucket
    /\ req' = End(r)
    /\ UNCHANGED <<call, nextName, flags, fresh>>

\* db.add, db.commit, db.refresh and the response; on an exception db.rollback
upload_video_db(r, commit_ok) ==
    /\ r.op = "upload_video"
    /\ r.pc = "upload_db"
    /\ LET request == [NoResponse EXCEPT !.op = "upload_video",
                                         !.file_size = r.file_size,
                                         !.storage_path = r.storage_path,
                                         !.storage_result = "stored",
                                         !.storage_calls = 1]
           db_video ==
               Video(nextId, r.title, None,
                     Some(r.file_size \div (1024 * 1024)), "ready",
                     r.storage_path, Some(r.original_filename),
                     Some(r.mime_type))
       IN  IF ~commit_ok
           THEN /\ resp' = [request EXCEPT !.code = 500, !.detail = "Upload failed"]
                /\ UNCHANGED <<videos, nextId>>
           ELSE /\ nextId <= MaxId
                /\ videos' = Insert(videos, db_video)
                /\ nextId' = nextId + 1
                /\ resp' = [request EXCEPT !.code = 201,
                                           !.detail = "File uploaded successfully",
                                           !.video = Some(db_video)]
    /\ req' = End(r)
    /\ UNCHANGED <<call, bucket, nextName, flags, fresh>>

----------------------------------------------------------------------------
(* main.py: GET /api/videos/{video_id}/download and /stream *)

DOWNLOAD_EXPIRES_IN == 3600

STREAM_EXPIRES_IN == 14400

\* mutant: the expiry asked for is ignored
get_signed_url_default_expiry(storage_path, expires_in, signed) ==
    IF ~supabase THEN None
    ELSE IF signed
    THEN Some([path |-> storage_path, expires_in |-> DOWNLOAD_EXPIRES_IN])
    ELSE None

\* storage.get_signed_url. signed = FALSE: create_signed_url raised, or its
\* response has no 'signedURL'
get_signed_url(storage_path, expires_in, signed) ==
    IF ~supabase THEN None
    ELSE IF signed
    THEN Some([path |-> storage_path, expires_in |-> expires_in])
    ELSE None

\* both handlers up to the call of get_signed_url: the availability check,
\* crud.get_video and the two 404s
lookup_for_url(op, video_id) ==
    /\ Free
    /\ LET video == crud_get_video(videos, video_id)
           request == [NoResponse EXCEPT !.op = op, !.video_id = video_id]
       IN  IF ~STORAGE_AVAILABLE
           THEN /\ resp' = [request EXCEPT
                              !.code = 503,
                              !.detail = "Storage service not available"]
                /\ UNCHANGED req
           ELSE IF video = None
           THEN /\ resp' = [request EXCEPT !.code = 404,
                                           !.detail = "Video not found"]
                /\ UNCHANGED req
           ELSE IF The(video).storage_path = None
           THEN /\ resp' = [request EXCEPT !.code = 404,
                                           !.detail = "Video file not found"]
                /\ UNCHANGED req
           ELSE /\ req' = Begin([Locals EXCEPT
                                   !.op = op, !.pc = "sign",
                                   !.video_id = video_id,
                                   !.storage_path = The(video).storage_path])
                /\ resp' = NoResponse
    /\ UNCHANGED <<call, videos, nextId, bucket, nextName, flags, fresh>>

\* get_signed_url and the response
respond_with_url(r, op, expires_in, signed) ==
    /\ r.op = op
    /\ r.pc = "sign"
    /\ LET url == get_signed_url(The(r.storage_path), expires_in, signed)
           request == [NoResponse EXCEPT !.op = op, !.video_id = r.video_id,
                                         !.storage_path = r.storage_path,
                                         !.storage_calls = IF supabase THEN 1 ELSE 0]
       IN  resp' = IF url = None
                   THEN [request EXCEPT
                           !.code = 500,
                           !.detail = IF op = "download_video"
                                      THEN "Failed to generate download URL"
                                      ELSE "Failed to generate stream URL"]
                   ELSE [request EXCEPT !.code = 200, !.signed_url = url]
    /\ req' = End(r)
    /\ UNCHANGED <<call, videos, nextId, bucket, nextName, flags, fresh>>

download_video(video_id) == lookup_for_url("download_video", video_id)

download_video_sign(r, signed) ==
    respond_with_url(r, "download_video", DOWNLOAD_EXPIRES_IN, signed)

stream_video(video_id) == lookup_for_url("stream_video", video_id)

stream_video_sign(r, signed) ==
    respond_with_url(r, "stream_video", STREAM_EXPIRES_IN, signed)

----------------------------------------------------------------------------
(* main.py: GET /api/stats *)

StatsLimit == 10000

\* the first query: crud.get_videos(db, limit=10000)
get_stats ==
    /\ Free
    /\ req' = Begin([Locals EXCEPT
                       !.op = "get_stats", !.pc = "stats_counts",
                       !.n_videos = Len(crud_get_videos(videos, 0, StatsLimit, ""))])
    /\ resp' = NoResponse
    /\ UNCHANGED <<call, videos, nextId, bucket, nextName, flags, fresh>>

\* the second query, crud.get_video_count_by_status, and the response
get_stats_counts(r) ==
    /\ r.op = "get_stats"
    /\ r.pc = "stats_counts"
    /\ resp' = [NoResponse EXCEPT
                  !.op = "get_stats", !.code = 200,
                  !.total_videos = r.n_videos,
                  !.status_breakdown = crud_get_video_count_by_status(videos)]
    /\ req' = End(r)
    /\ UNCHANGED <<call, videos, nextId, bucket, nextName, flags, fresh>>

----------------------------------------------------------------------------
(* The service *)

\* the response of the last step goes out to the client
send_response ==
    /\ resp # NoResponse
    /\ resp' = NoResponse
    /\ UNCHANGED <<call, videos, nextId, bucket, nextName, flags, req, fresh>>

\* a step's response is sent before the next step is taken
Next ==
    \/ send_response
    \/ \E video_id \in VideoIds : get_video(video_id)
    \/ \E title \in CreateTitles, duration \in CreateDurations,
          commit_ok \in BOOLEAN : create_video(title, duration, commit_ok)
    \/ \E video_id \in VideoIds, status \in StatusInputs,
          commit_ok \in BOOLEAN : update_video_status(video_id, status, commit_ok)
    \/ \E video_id \in VideoIds : delete_video(video_id)
    \/ \E r \in Waiting, outcome \in {"deleted", "failed", "raised"} :
          delete_video_storage(r, outcome)
    \/ \E r \in Waiting, commit_ok \in BOOLEAN : delete_video_db(r, commit_ok)
    \/ \E n \in UploadNames, file \in FileInputs :
          upload_video(n.filename, n.title, file)
    \/ \E r \in Waiting, stored \in BOOLEAN : upload_video_storage(r, stored)
    \/ \E r \in Waiting, commit_ok \in BOOLEAN : upload_video_db(r, commit_ok)
    \/ \E video_id \in VideoIds : download_video(video_id)
    \/ \E r \in Waiting, signed \in BOOLEAN : download_video_sign(r, signed)
    \/ \E video_id \in VideoIds : stream_video(video_id)
    \/ \E r \in Waiting, signed \in BOOLEAN : stream_video_sign(r, signed)
    \/ get_stats
    \/ \E r \in Waiting : get_stats_counts(r)

Spec == Init /\ [][Next]_vars

----------------------------------------------------------------------------
(* C1: /api/stats *)

RECURSIVE SumCounts(_)
SumCounts(S) ==
    IF S = {} THEN 0
    ELSE LET e == CHOOSE x \in S : TRUE IN e[2] + SumCounts(S \ {e})

\* the request r, in flight before this step, ends in this step
Ends(r) == CopiesIn(r, req') < CopiesIn(r, req)

StatsResponds == \E r \in InFlight : r.op = "get_stats" /\ Ends(r)

\* C1: whenever /api/stats responds, total_videos is the number of rows in
\* the table and the counts of status_breakdown sum to total_videos.
C1_StatsConsistent ==
    [][StatsResponds =>
          /\ resp'.total_videos = Cardinality(DOMAIN videos')
          /\ SumCounts(resp'.status_breakdown) = resp'.total_videos]_vars

----------------------------------------------------------------------------
(* C2, C3: DELETE /api/videos/{video_id} *)

\* a delete request for video_id is taken up in this step: it is either in
\* flight after the step or answered in it
DeleteArrives(video_id) ==
    \/ /\ BagCardinality(req') > BagCardinality(req)
       /\ \E r \in BagToSet(req') : /\ CopiesIn(r, req') > CopiesIn(r, req)
                                    /\ r.op = "delete_video"
                                    /\ r.video_id = video_id
    \/ /\ req' = req
       /\ resp' # resp
       /\ resp'.op = "delete_video"
       /\ resp'.video_id = video_id

\* C2: a delete request for an id that is not in the table is answered 404
\* at once, with the table and the bucket unchanged and no storage call.
C2_DeleteMissing ==
    [][\A video_id \in VideoIds :
          (video_id \notin DOMAIN videos /\ DeleteArrives(video_id)) =>
              /\ req' = req
              /\ resp'.code = 404
              /\ resp'.storage_calls = 0
              /\ videos' = videos
              /\ Cardinality(DOMAIN videos') = Cardinality(DOMAIN videos)
              /\ bucket' = bucket]_vars

C2_Witness ==
    /\ resp.op = "delete_video"
    /\ resp.code = 404
    /\ resp.storage_calls = 0
    /\ resp.storage_path = None
    /\ resp.video_id \notin DOMAIN videos
    /\ DOMAIN videos # {}
    /\ bucket # {}

\* the delete request r, which found its row, ends in this step
DeleteEnds(r) ==
    /\ r.op = "delete_video"
    /\ r.pc = "delete_db"
    /\ Ends(r)

\* C3 as claimed: a delete request that found its row always removes the
\* row and reports success.
C3_DeleteAlwaysSucceeds ==
    [][\A r \in InFlight :
          DeleteEnds(r) => /\ resp'.code = 200
                           /\ r.video_id \notin DOMAIN videos']_vars

\* C3 as amended: whatever the storage delete does, the request goes on to
\* the database delete with the table unchanged; the database delete
\* removes the row and reports 200, unless the row is already gone (404)
\* or the commit fails (500, row kept).
C3_StorageNeverBlocksDelete ==
    [][\A r \in InFlight :
          /\ (r.op = "delete_video" /\ r.pc = "delete_storage" /\ Ends(r)) =>
                 /\ req' = Continue(r, [r EXCEPT !.pc = "delete_db"])
                 /\ videos' = videos
                 /\ resp'.code = 0
          /\ DeleteEnds(r) =>
                 IF r.video_id \in DOMAIN videos
                 THEN \/ /\ resp'.code = 200
                         /\ videos' = Remove(videos, r.video_id)
                      \/ /\ resp'.code = 500
                         /\ resp'.detail = "database error"
                         /\ videos' = videos
                 ELSE /\ resp'.code = 404
                      /\ videos' = videos]_vars

\* a delete answered 200 although the storage delete was called and the
\* object is still in the bucket
C3_Witness ==
    /\ resp.op = "delete_video"
    /\ resp.code = 200
    /\ resp.storage_calls = 1
    /\ resp.storage_path # None
    /\ resp.storage_path \subseteq bucket
    /\ resp.video_id \notin DOMAIN videos

----------------------------------------------------------------------------
(* C4, C5: POST /api/videos *)

\* C4: a get-by-id of a row that a create with title T inserted and nothing
\* has written since returns T trimmed and the status "processing" (or
\* "uploading").
C4_CreateThenGet ==
    (/\ resp.op = "get_video"
     /\ resp.video_id \in DOMAIN fresh) =>
        /\ resp.code = 200
        /\ The(resp.video).id = resp.video_id
        /\ The(resp.video).title = strip(fresh[resp.video_id])
        /\ The(resp.video).status \in {"processing", "uploading"}

C4_Witness ==
    /\ resp.op = "get_video"
    /\ resp.code = 200
    /\ resp.video_id \in DOMAIN fresh
    /\ fresh[resp.video_id] = <<" ", "A", "B", " ">>
    /\ The(resp.video).title = <<"A", "B">>

\* C5: a create request with a title that is not blank and with no duration,
\* or a positive one, gets 201 (unless the database itself fails).
C5_DurationOptional ==
    (/\ resp.op = "create_video"
     /\ Len(strip(resp.title)) > 0
     /\ resp.duration = None \/ \E d \in resp.duration : d > 0
     /\ resp.detail # "database error") =>
        /\ resp.code = 201
        /\ resp.video # None

----------------------------------------------------------------------------
(* C8: an upload of 0 bytes *)

\* C8 as claimed: an upload of 0 bytes is always answered 400.
C8_EmptyUploadIs400 ==
    (resp.op = "upload_video" /\ resp.file_size = 0) => resp.code = 400

\* C8 as amended: an upload of 0 bytes is always rejected at once, with 400
\* when the upload service is available and 503 when it is not; it never
\* gets to the storage call or the insert, and the table and the bucket are
\* unchanged.
C8_EmptyUploadRejected ==
    /\ [](\A r \in InFlight : r.op = "upload_video" => r.file_size # 0)
    /\ [][(resp' # resp /\ resp'.op = "upload_video" /\ resp'.file_size = 0) =>
             /\ resp'.code = IF STORAGE_AVAILABLE /\ FILE_UTILS_AVAILABLE
                             THEN 400 ELSE 503
             /\ resp'.storage_calls = 0
             /\ resp'.video = None
             /\ req' = req
             /\ videos' = videos
             /\ bucket' = bucket]_vars

C8_Witness ==
    /\ resp.op = "upload_video"
    /\ resp.file_size = 0
    /\ resp.code = 400
    /\ resp.detail = "File is empty"

----------------------------------------------------------------------------
(* C11: validation before upload and persistence *)

\* the three checks of the request validator on an upload request in flight
PassedValidation(r) ==
    validate_upload_request(r.filename, r.title, r.file_size).status = 0

\* C11: every upload request that has stored its object in the bucket (and
\* is about to insert its row) has an allowed filename extension, a valid
\* title and a size within the limits.
C11_ValidationPrecedesUpload ==
    \A r \in InFlight :
        (r.op = "upload_video" /\ r.pc = "upload_db") => PassedValidation(r)

----------------------------------------------------------------------------
(* C12: the download and stream operations *)

UrlOps == {"download_video", "stream_video"}

\* a request op for video_id is taken up in this step: it is either in
\* flight after the step or answered in it
UrlRequestArrives(op, video_id) ==
    \/ /\ BagCardinality(req') > BagCardinality(req)
       /\ \E r \in BagToSet(req') : /\ CopiesIn(r, req') > CopiesIn(r, req)
                                    /\ r.op = op
                                    /\ r.video_id = video_id
    \/ /\ req' = req
       /\ resp = NoResponse
       /\ resp'.op = op
       /\ resp'.video_id = video_id

\* C12: download and stream answer 503 when the storage is unavailable, 404
\* when the row is absent or has no storage path, 500 when the signing
\* returns nothing, and otherwise 200 with a signed URL for the row's
\* storage path that expires in 3600 s (download) or 14400 s (stream); no
\* other response carries a URL, and no step of them changes the table or
\* the bucket.
C12_SignedUrlOnly ==
    /\ [](resp.signed_url # None => resp.op \in UrlOps /\ resp.code = 200)
    /\ [][\A op \in UrlOps :
             /\ \A video_id \in VideoIds :
                   UrlRequestArrives(op, video_id) =>
                      /\ videos' = videos
                      /\ bucket' = bucket
                      /\ resp'.signed_url = None
                      /\ IF ~STORAGE_AVAILABLE
                         THEN req' = req /\ resp'.code = 503
                         ELSE IF \/ video_id \notin DOMAIN videos
                                 \/ videos[video_id].storage_path = None
                         THEN req' = req /\ resp'.code = 404
                         ELSE /\ resp'.code = 0
                              /\ \E r \in BagToSet(req') :
                                    /\ req' = Begin(r)
                                    /\ r.storage_path = videos[video_id].storage_path
             /\ \A r \in InFlight :
                   (r.op = op /\ Ends(r)) =>
                      /\ videos' = videos
                      /\ bucket' = bucket
                      /\ resp'.op = op
                      /\ resp'.video_id = r.video_id
                      /\ resp'.code \in {200, 500}
                      /\ resp'.code = 200 <=> resp'.signed_url # None
                      /\ resp'.code = 200 =>
                            /\ supabase
                            /\ The(resp'.signed_url).path = The(r.storage_path)
                            /\ The(resp'.signed_url).expires_in =
                                  IF op = "download_video" THEN 3600 ELSE 14400]_vars

C12_Witness ==
    /\ resp.op = "stream_video"
    /\ resp.code = 200
    /\ resp.signed_url # None
    /\ The(resp.signed_url).expires_in = 14400
    /\ resp.video_id \in DOMAIN videos
    /\ The(resp.signed_url).path = The(videos[resp.video_id].storage_path)

----------------------------------------------------------------------------
(* C13, C14: the row of an upload *)

\* the rows that this step adds to the table
RowsAdded == {videos'[i] : i \in DOMAIN videos' \ DOMAIN videos}

\* the upload request r, in flight before this step, ends in this step
UploadEnds(r) == r.op = "upload_video" /\ Ends(r)

\* C13: a row with a storage path is added only by an upload request whose
\* object is in the bucket, in the step of its insert, answered 201; an
\* upload answered 503, or whose storage upload reports failure (500), or
\* answered with any other error, leaves the table unchanged.
C13_RowOnlyAfterStorageAndCommit ==
    [][/\ \A row \in RowsAdded :
             row.storage_path # None =>
                \E r \in InFlight :
                   /\ UploadEnds(r)
                   /\ r.pc = "upload_db"
                   /\ r.storage_path = row.storage_path
                   /\ r.storage_path \subseteq bucket
                   /\ resp'.code = 201
                   /\ resp'.video = Some(row)
                   /\ videos' = Insert(videos, row)
       /\ (resp'.op = "upload_video" /\ resp'.code # 201 /\ resp'.code # 0) =>
             /\ resp'.code \in {400, 500, 503}
             /\ resp'.video = None
             /\ videos' = videos
       /\ (resp'.op = "upload_video" /\ ~(STORAGE_AVAILABLE /\ FILE_UTILS_AVAILABLE)) =>
             resp'.code = 503
       /\ \A r \in InFlight :
             (UploadEnds(r) /\ r.pc = "upload_storage"
              /\ ~(r.storage_path \subseteq bucket')) =>
                /\ resp'.code = 500
                /\ req' = End(r)
                /\ videos' = videos]_vars

C13_Witness ==
    /\ resp.op = "upload_video"
    /\ resp.code = 201
    /\ resp.video # None
    /\ The(resp.video).id \in DOMAIN videos
    /\ videos[The(resp.video).id] = The(resp.video)
    /\ The(resp.video).storage_path # None
    /\ The(resp.video).storage_path \subseteq bucket

\* C14: when the database write of an upload fails after the object was
\* stored, the request is answered 500, no row is added, and the object
\* stays in the bucket with no row that refers to it.
C14_FailedInsertKeepsObject ==
    [][\A r \in InFlight :
          (UploadEnds(r) /\ r.pc = "upload_db" /\ resp'.code # 201) =>
             /\ resp'.op = "upload_video"
             /\ resp'.code = 500
             /\ videos' = videos
             /\ RowsAdded = {}
             /\ bucket' = bucket
             /\ r.storage_path \subseteq bucket'
             /\ \A i \in DOMAIN videos' :
                   videos'[i].storage_path # r.storage_path]_vars

C14_Witness ==
    /\ resp.op = "upload_video"
    /\ resp.code = 500
    /\ resp.detail = "Upload failed"
    /\ resp.storage_result = "stored"
    /\ resp.storage_path # None
    /\ resp.storage_path \subseteq bucket
    /\ \A i \in DOMAIN videos : videos[i].storage_path # resp.storage_path

----------------------------------------------------------------------------
(* C15: crud.create_video *)

\* the duration that crud.create_video is called with for the last response
DurationGiven == IF resp.duration = None THEN 0 ELSE The(resp.duration)

\* C15: create_video raises for a title that is empty after trimming and for
\* a duration that is not positive, and then the table is unchanged;
\* otherwise, its commit succeeding, it inserts exactly one row, with the
\* trimmed title, the duration and the status "processing", and leaves the
\* other rows as they are.
C15_CreateValidates ==
    [][(resp = NoResponse /\ resp'.op = "create_video") =>
          IF DurationGiven' <= 0 \/ Len(strip(resp'.title)) = 0
          THEN /\ resp'.code = 500
               /\ resp'.detail \in {"Duration must be positive",
                                    "Title cannot be empty"}
               /\ resp'.video = None
               /\ videos' = videos
          ELSE \/ /\ resp'.code = 500
                  /\ resp'.detail = "database error"
                  /\ videos' = videos
               \/ /\ resp'.code = 201
                  /\ Cardinality(RowsAdded) = 1
                  /\ Cardinality(DOMAIN videos') = Cardinality(DOMAIN videos) + 1
                  /\ \A i \in DOMAIN videos : videos'[i] = videos[i]
                  /\ resp'.video = RowsAdded
                  /\ \A row \in RowsAdded :
                        /\ row.title = strip(resp'.title)
                        /\ row.duration = Some(DurationGiven')
                        /\ row.status = "processing"
                        /\ row.storage_path = None]_vars

C15_Witness ==
    /\ resp.op = "create_video"
    /\ resp.code = 201
    /\ resp.title = <<" ", "A", "B", " ">>
    /\ resp.duration = Some(5)
    /\ The(resp.video).title = <<"A", "B">>
    /\ The(resp.video).status = "processing"
    /\ videos[The(resp.video).id] = The(resp.video)

----------------------------------------------------------------------------
(* C16: crud.update_video_status *)

----------------------------------------------------------------------------
(* C17: the sniffed MIME type in an upload *)

\* C17: no upload is refused for the MIME type that get_file_type gave its
\* payload.
C17_SniffedTypeAccepted ==
    resp.op = "upload_video" => resp.detail # "Invalid file type"

----------------------------------------------------------------------------
(* C18: rows and their objects *)

\* every row that has a storage path refers to an object that is in the
\* bucket
RowsHaveObjects ==
    \A i \in DOMAIN videos :
        videos[i].storage_path # None => videos[i].storage_path \subseteq bucket

\* C18: whenever no delete request is in flight, every row that has a
\* storage path refers to an object that is in the bucket: no delete has
\* left a row behind whose object it removed.
C18_RowsHaveObjects ==
    (\A r \in InFlight : r.op # "delete_video") => RowsHaveObjects

====
